---- MODULE Spec2Model ----
(***************************************************************************)
(* RapidCare offline-first persistence: DatabaseManager of                 *)
(* database_setup.py.  Local SQLite tables, the sync_queue table, the      *)
(* PostgreSQL store reached through _sync_to_postgresql, the write         *)
(* handlers and the drain sync_pending_changes.                            *)
(*                                                                         *)
(* A write handler is several SQLite transactions and possibly a remote    *)
(* call, and the drain is a loop over a snapshot of the queue, so a call   *)
(* is a short process (pc).  Calls are made one at a time; the process may *)
(* stop and be started again between any two steps of a call.  The rows of *)
(* pg are the committed rows of the remote store.                          *)
(* The content of a payload is named by the time of the write that made    *)
(* it, so two writes never carry the same content.                         *)
(***************************************************************************)
EXTENDS Integers, Sequences, FiniteSets, TLC

\* ------------------------------------------------------------------ bounds
\* write calls (inserts and updates) in one behaviour
MaxWrites == 2

\* SQLite errors and rejected remote statements in one behaviour
MaxFaults == 1

\* offline tasks stored in one behaviour
MaxTasks == 2

\* --------------------------------------------------------------- constants
Tables == {"patients", "soap_notes", "interactions", "video_analyses", "missing_persons", "vitals"}

\* tables for which _sync_to_postgresql has an INSERT branch
PushTables == {"patients", "soap_notes", "interactions", "video_analyses", "vitals"}

\* branches whose statement ends ON CONFLICT (id) DO UPDATE SET ...
UpsertTables == {"patients", "soap_notes"}

\* local tables created with a sync_status column (vitals has none)
StatusTables == Tables \ {"vitals"}

\* DatabaseManager() is built with the default sync_enabled
sync_enabled == TRUE

\* get_postgresql_connection: psycopg.connect with pg_config and row_factory only,
\* no autocommit asked for, so a statement opens a transaction
autocommit == FALSE

\* a dict without the key 'id'
NoId == -1

\* an id that no local row has (never returned by uuid4 here)
GhostId == 0

Ids == 1..MaxWrites

TaskIds == 1..MaxTasks

\* the threads that call process_offline_tasks, two of them at the same time at most
Callers == {"a", "b"}

VARIABLES
    local,             \* SQLite entity rows: id -> row
    queue,             \* SQLite sync_queue, in ORDER BY timestamp ASC
    pg,                \* PostgreSQL rows: <<table, id>> -> row
    online_available,  \* self.online_available
    pgUp,              \* whether psycopg.connect succeeds right now
    now,               \* datetime.now(timezone.utc), a logical clock: one tick per write
    nextId,            \* next uuid4 of an entity row
    nextQ,             \* next uuid4 of a sync_queue row
    faults,            \* SQLite errors and remote rejections so far
    pc,                \* position of the call in progress
    w,                 \* locals of the write call in progress
    items,             \* queue_items still to be processed by the drain
    lastRet,           \* history: the last finished write call and what it returned
    hist,              \* history: id -> whether the row was rewritten before any push of it
    drain,             \* history: progress of a drain under a reachable, accepting remote
    tasks,             \* OfflineStorageManager: rows of offline_tasks, id -> row
    netUp,             \* whether requests.get of is_online answers 200 right now
    wpc,               \* position of the _sync_worker thread
    todo,              \* tasks_to_sync of the cycle in progress
    ppc,               \* caller -> position of its call of process_offline_tasks
    plist,             \* caller -> pending_tasks still to be processed by its loop
    pstart             \* history: caller -> pending_tasks as read when its call began

\* the variables of DatabaseManager and of its environment
dbVars == <<local, queue, pg, online_available, pgUp, now, nextId, nextQ,
            pc, w, items, lastRet, hist, drain>>

\* the variables of OfflineStorageManager and of its environment
taskVars == <<tasks, netUp, wpc, todo, ppc, plist, pstart>>

vars == <<local, queue, pg, online_available, pgUp, now, nextId, nextQ, faults,
          pc, w, items, lastRet, hist, drain, tasks, netUp, wpc, todo,
          ppc, plist, pstart>>

\* --------------------------------------------------------------- row shapes
NoRow == [table |-> "none", body |-> 0, created_at |-> 0, updated_at |-> 0,
          sync_status |-> "none", sync_timestamp |-> "null"]

NoPgRow == [present |-> FALSE, body |-> 0, created_at |-> 0, updated_at |-> 0]

NoData == [id |-> NoId, cols |-> FALSE, body |-> 0, created_at |-> 0, updated_at |-> 0]

W0 == [table |-> "none", id |-> NoId, operation |-> "none", data |-> NoData, push |-> FALSE]

NoRet == [val |-> "none", id |-> NoId]

\* no row of offline_tasks under this id
NoTask == [stored |-> FALSE, processed |-> FALSE, result |-> "null", error |-> FALSE,
           synced |-> FALSE]


\* the record dict a handler builds itself: every column key present
Record(id, ts) ==
    [id |-> id, cols |-> TRUE, body |-> ts, created_at |-> ts, updated_at |-> ts]

\* a dict handed in by the caller: it may lack 'id' and the remote column keys
CallerDict(idKey, cols, ts) ==
    [id |-> idKey, cols |-> cols, body |-> ts, created_at |-> 0, updated_at |-> 0]

\* ids of the rows of a table
RowIds(table_name) == {i \in Ids : local[i].table = table_name}

QIds(q) == {q[i].id : i \in 1..Len(q)}

Outstanding(id) == {i \in 1..Len(queue) : queue[i].record_id = id}

\* SELECT * FROM <table>: what a local read returns, as the id and payload of each row
get_rows(table_name) == {[id |-> i, body |-> local[i].body] : i \in RowIds(table_name)}

\* get_sync_status: SELECT COUNT(*) FROM sync_queue, and the flags of the manager
get_sync_status ==
    [online_available |-> online_available, sync_enabled |-> sync_enabled,
     pending_changes |-> Len(queue)]

\* whether one more failure may be injected
MayFail == faults < MaxFaults

Oks == IF MayFail THEN BOOLEAN ELSE {TRUE}

\* ------------------------------------------------------- remote statements
\* a conflict clause that adds the excluded row to the stored one instead of
\* replacing it: a statement that is not idempotent
PgUpsertMerge(rows, table_name, data) ==
    LET key == <<table_name, data.id>>
        old == rows[key]
    IN  IF ~old.present
        THEN [rows EXCEPT ![key] = [present |-> TRUE, body |-> data.body,
                                    created_at |-> data.created_at,
                                    updated_at |-> data.updated_at]]
        ELSE IF table_name \in UpsertTables
        THEN [rows EXCEPT ![key] = [old EXCEPT !.body = old.body + data.body,
                                               !.updated_at = data.updated_at]]
        ELSE rows

\* INSERT INTO <table> ... VALUES ... ON CONFLICT (id) DO UPDATE SET ... (patients,
\* soap_notes: every column but id and created_at) or DO NOTHING (the others)
PgUpsert(rows, table_name, data) ==
    LET key == <<table_name, data.id>>
        old == rows[key]
    IN  IF ~old.present
        THEN [rows EXCEPT ![key] = [present |-> TRUE, body |-> data.body,
                                    created_at |-> data.created_at,
                                    updated_at |-> data.updated_at]]
        ELSE IF table_name \in UpsertTables
        THEN [rows EXCEPT ![key] = [old EXCEPT !.body = data.body,
                                               !.updated_at = data.updated_at]]
        ELSE rows

\* the parameter tuple of a branch reads data['id'] and the column keys
HasKeys(data) == data.id # NoId /\ data.cols

\* whether _sync_to_postgresql issues a statement for this table and operation
IssuesStatement(table_name, operation) ==
    operation = "INSERT" /\ table_name \in PushTables

\* what the statements of one accepted push leave in the remote store: the branch
\* chosen by operation and table_name, no statement for any other pair
PushEffect(rows, table_name, data, operation) ==
    IF IssuesStatement(table_name, operation) /\ HasKeys(data)
    THEN PgUpsert(rows, table_name, data)
    ELSE rows

\* conn.close() at the end of the try block of _sync_to_postgresql, with no
\* conn.commit() before it: the open transaction tx is discarded
conn_close(rows, tx) == IF autocommit THEN tx ELSE rows

\* ------------------------------------------------------ SQLite statements
\* an UPDATE that sets a row already synced back to pending
MarkToggles(rows, table_name, record_id, ok) ==
    IF ok /\ table_name \in StatusTables /\ record_id \in RowIds(table_name)
    THEN [rows EXCEPT ![record_id].sync_status =
                          IF @ = "synced" THEN "pending" ELSE "synced",
                      ![record_id].sync_timestamp = "set"]
    ELSE rows

\* UPDATE {table_name} SET sync_status = 'synced', sync_timestamp = ? WHERE id = ?
\* ok = FALSE: the statement raised and the error was logged
_mark_synced(rows, table_name, record_id, ok) ==
    IF ok /\ table_name \in StatusTables /\ record_id \in RowIds(table_name)
    THEN [rows EXCEPT ![record_id].sync_status = "synced",
                      ![record_id].sync_timestamp = "set"]
    ELSE rows

\* the rows of sync_queue sorted on the timestamp column, rows of equal timestamp in
\* the order of the table
RECURSIVE SortedOnTimestamp(_, _)
SortedOnTimestamp(q, asc) ==
    IF q = <<>> THEN <<>>
    ELSE LET before(a, b) == IF asc THEN a < b ELSE a > b
             m == CHOOSE j \in 1..Len(q) :
                      \A k \in 1..Len(q) :
                          \/ before(q[j].timestamp, q[k].timestamp)
                          \/ q[j].timestamp = q[k].timestamp /\ j <= k
             rest == [k \in 1..(Len(q) - 1) |-> IF k < m THEN q[k] ELSE q[k + 1]]
         IN  <<q[m]>> \o SortedOnTimestamp(rest, asc)

\* SELECT * FROM sync_queue ORDER BY timestamp DESC
OrderByTimestampDesc(q) == SortedOnTimestamp(q, FALSE)

\* SELECT * FROM sync_queue ORDER BY timestamp ASC
OrderByTimestamp(q) == SortedOnTimestamp(q, TRUE)

\* INSERT INTO sync_queue (id, table_name, record_id, operation, data, timestamp)
_add_to_sync_queue(q, table_name, record_id, operation, data, ok) ==
    IF ok
    THEN Append(q, [id |-> nextQ, table_name |-> table_name, record_id |-> record_id,
                    operation |-> operation, data |-> data, timestamp |-> now,
                    retry_count |-> 0])
    ELSE q

\* DELETE FROM sync_queue WHERE id = ?
_remove_from_sync_queue(q, queue_id, ok) ==
    IF ok THEN SelectSeq(q, LAMBDA e : e.id # queue_id) ELSE q

\* UPDATE sync_queue SET retry_count = retry_count + 1 WHERE id = ?
_increment_retry_count(q, queue_id, ok) ==
    IF ok
    THEN [i \in 1..Len(q) |->
            IF q[i].id = queue_id THEN [q[i] EXCEPT !.retry_count = @ + 1] ELSE q[i]]
    ELSE q

\* ---------------------------------------------------- _sync_to_postgresql
\* a push that marks the record synced before it connects, so that a failed connect
\* or a rejected statement leaves its trace in the local row
SyncMarksFirst(table_name, data, operation, accept, markOk) ==
    LET marked(res) == [pg |-> pg,
                        local |-> _mark_synced(local, table_name, data.id, markOk),
                        res |-> res, raised |-> FALSE]
        stmt == IssuesStatement(table_name, operation)
    IN  IF ~online_available THEN [marked("skipped") EXCEPT !.local = local]
        ELSE IF ~pgUp THEN marked("connect_error")
        ELSE IF stmt /\ ~HasKeys(data) THEN marked("key_error")
        ELSE IF stmt /\ ~accept THEN marked("rejected")
        ELSE IF data.id = NoId THEN marked("key_error")
        ELSE [pg |-> conn_close(pg, PushEffect(pg, table_name, data, operation)),
              local |-> _mark_synced(local, table_name, data.id, markOk),
              res |-> IF stmt THEN "written" ELSE "nostmt",
              raised |-> FALSE]

\* The whole body is inside try/except Exception, so the call never raises:
\* a failed connect, a KeyError of the parameter tuple and a rejected statement
\* all end in the except clause, before _mark_synced.
\* accept: the remote store accepts the statement; markOk: _mark_synced's UPDATE works.
_sync_to_postgresql(table_name, data, operation, accept, markOk) ==
    LET same(res) == [pg |-> pg, local |-> local, res |-> res, raised |-> FALSE]
        stmt == IssuesStatement(table_name, operation)
        pg1 == PushEffect(pg, table_name, data, operation)
    IN  IF ~online_available THEN same("skipped")
        ELSE IF ~pgUp THEN same("connect_error")
        ELSE IF stmt /\ ~HasKeys(data) THEN same("key_error")
        ELSE IF stmt /\ ~accept THEN same("rejected")
        ELSE IF data.id = NoId THEN same("key_error")
        ELSE [pg |-> conn_close(pg, pg1),
              local |-> _mark_synced(local, table_name, data.id, markOk),
              res |-> IF stmt THEN "written" ELSE "nostmt",
              raised |-> FALSE]

\* -------------------------------------------------------------------- Init
\* DatabaseManager.__init__: empty SQLite tables, one probe of PostgreSQL
Init ==
    /\ local = [i \in Ids |-> NoRow]
    /\ queue = <<>>
    /\ pg = [k \in Tables \X Ids |-> NoPgRow]
    /\ pgUp \in BOOLEAN
    /\ online_available = pgUp
    /\ now = 0
    /\ nextId = 1
    /\ nextQ = 1
    /\ faults = 0
    /\ pc = "idle"
    /\ w = W0
    /\ items = <<>>
    /\ lastRet = NoRet
    /\ hist = [i \in Ids |-> FALSE]
    /\ drain = "none"
    /\ tasks = [t \in TaskIds |-> NoTask]
    /\ netUp = FALSE
    /\ wpc = "probe"
    /\ todo = {}
    /\ ppc = [p \in Callers |-> "idle"]
    /\ plist = [p \in Callers |-> {}]
    /\ pstart = [p \in Callers |-> {}]

\* ---------------------------------------------------------- write handlers
\* the write call hands its value to the caller
Return(val, id) ==
    /\ pc' = "idle"
    /\ w' = W0
    /\ lastRet' = [val |-> val, id |-> id]

\* an immediate push that does not look at the online signal
PushesAlways(push) == push /\ sync_enabled

\* the immediate push of a handler: if self.online_available and self.sync_enabled
PushesNow(push) == push /\ online_available /\ sync_enabled

\* First transaction of an insert handler: INSERT INTO <table> ...; conn.commit().
\* enq: the handler calls _add_to_sync_queue; push: it ends with the immediate push.
\* ok = FALSE: the INSERT raised, the handler logs and re-raises.
InsertRow(table_name, data, enq, push) ==
    /\ pc = "idle"
    /\ now < MaxWrites
    /\ \E ok \in Oks :
         IF ok
         THEN /\ now' = now + 1
              /\ nextId' = nextId + 1
              /\ local' = [local EXCEPT ![nextId] =
                             [table |-> table_name, body |-> now + 1,
                              created_at |-> now + 1, updated_at |-> now + 1,
                              sync_status |-> IF table_name \in StatusTables
                                              THEN "pending" ELSE "none",
                              sync_timestamp |-> "null"]]
              /\ IF enq \/ PushesNow(push)
                 THEN /\ pc' = IF enq THEN "enqueue" ELSE "push"
                      /\ w' = [table |-> table_name, id |-> nextId, operation |-> "INSERT",
                               data |-> data, push |-> push]
                      /\ lastRet' = NoRet
                 ELSE Return("id", nextId)
              /\ UNCHANGED faults
         ELSE /\ lastRet' = [val |-> "raised", id |-> NoId]
              /\ faults' = faults + 1
              /\ UNCHANGED <<local, now, nextId, pc, w>>
    /\ drain' = "none"
    /\ UNCHANGED <<queue, pg, online_available, pgUp, nextQ, items, hist>>

add_patient ==
    InsertRow("patients", Record(nextId, now + 1), TRUE, TRUE)

add_soap_note ==
    InsertRow("soap_notes", Record(nextId, now + 1), TRUE, TRUE)

log_interaction ==
    InsertRow("interactions", Record(nextId, now + 1), TRUE, TRUE)

\* the queue entry carries analysis_data, the caller's dict: without 'id', or with
\* the id of a video analysis and the column keys of the remote statement
save_video_analysis ==
    \E idKey \in {NoId} \cup RowIds("video_analyses") :
        InsertRow("video_analyses", CallerDict(idKey, idKey # NoId, now + 1), TRUE, FALSE)

\* the queue entry carries person_data, the caller's dict: without 'id', or with the
\* id of a missing person
add_missing_person ==
    \E idKey \in {NoId} \cup RowIds("missing_persons") :
        InsertRow("missing_persons", CallerDict(idKey, FALSE, now + 1), TRUE, FALSE)

\* no _add_to_sync_queue call in this handler
add_vitals ==
    InsertRow("vitals", Record(nextId, now + 1), FALSE, TRUE)

\* UPDATE soap_notes SET ..., updated_at = ?, sync_status = 'pending' WHERE id = ?
\* matches no row when soap_id is not the id of a soap note; the queue entry carries
\* soap_data, the caller's dict, with or without 'id'.
\* ok = FALSE: the UPDATE raised, the handler returns False.
update_soap_note ==
    /\ pc = "idle"
    /\ now < MaxWrites
    /\ \E soap_id \in {GhostId} \cup RowIds("soap_notes"), withId \in BOOLEAN, ok \in Oks :
         IF ok
         THEN /\ now' = now + 1
              /\ IF soap_id \in RowIds("soap_notes")
                 THEN /\ local' = [local EXCEPT ![soap_id].body = now + 1,
                                                ![soap_id].updated_at = now + 1,
                                                ![soap_id].sync_status = "pending"]
                      /\ hist' = [hist EXCEPT ![soap_id] =
                                    ~pg[<<"soap_notes", soap_id>>].present]
                 ELSE UNCHANGED <<local, hist>>
              /\ pc' = "enqueue"
              /\ w' = [table |-> "soap_notes", id |-> soap_id, operation |-> "UPDATE",
                       data |-> CallerDict(IF withId THEN soap_id ELSE NoId, FALSE, now + 1),
                       push |-> FALSE]
              /\ lastRet' = NoRet
              /\ UNCHANGED faults
         ELSE /\ lastRet' = [val |-> "False", id |-> soap_id]
              /\ faults' = faults + 1
              /\ UNCHANGED <<local, now, pc, w, hist>>
    /\ drain' = "none"
    /\ UNCHANGED <<queue, pg, online_available, pgUp, nextId, nextQ, items>>

\* Second transaction of a handler: self._add_to_sync_queue(...).
\* ok = FALSE: the INSERT raised inside _add_to_sync_queue, which logs and returns.
WriteEnqueue ==
    /\ pc = "enqueue"
    /\ \E ok \in Oks :
         /\ queue' = _add_to_sync_queue(queue, w.table, w.id, w.operation, w.data, ok)
         /\ nextQ' = IF ok THEN nextQ + 1 ELSE nextQ
         /\ faults' = IF ok THEN faults ELSE faults + 1
    /\ drain' = "none"
    /\ IF PushesNow(w.push)
       THEN /\ pc' = "push"
            /\ UNCHANGED <<w, lastRet>>
       ELSE Return(IF w.operation = "UPDATE" THEN "True" ELSE "id", w.id)
    /\ UNCHANGED <<local, pg, online_available, pgUp, now, nextId, items, hist>>

\* the failures one call of _sync_to_postgresql can meet
PushFaults == IF MayFail THEN {"none", "reject", "mark"} ELSE {"none"}

\* a failure is counted only where it changes what the call does
Bites(f, table_name, data, operation) ==
    \/ f \in {"none", "remove"}
    \/ _sync_to_postgresql(table_name, data, operation, f # "reject", f # "mark")
         # _sync_to_postgresql(table_name, data, operation, TRUE, TRUE)

\* Last step of add_patient, add_soap_note, log_interaction, add_vitals:
\* self._sync_to_postgresql(table, record, 'INSERT'), then return the id
\* f: the failure met by the push
WritePushF(f) ==
    /\ pc = "push"
    /\ LET r == _sync_to_postgresql(w.table, w.data, "INSERT", f # "reject", f # "mark")
       IN  /\ Bites(f, w.table, w.data, "INSERT")
           /\ pg' = r.pg
           /\ local' = r.local
           /\ faults' = IF f = "none" THEN faults ELSE faults + 1
    /\ drain' = "none"
    /\ Return("id", w.id)
    /\ UNCHANGED <<queue, online_available, pgUp, now, nextId, nextQ, items, hist>>

WritePush ==
    \E f \in PushFaults : WritePushF(f)

\* ------------------------------------------------------ sync_pending_changes
\* Entry of the drain: the online_available test, SELECT * FROM sync_queue ORDER BY
\* timestamp ASC, and the return when nothing is queued
SyncBegin ==
    /\ pc = "idle"
    /\ IF ~online_available
       THEN UNCHANGED <<items, pc, drain>>
       ELSE IF queue = <<>>
       THEN /\ drain' = IF pgUp THEN "done" ELSE drain
            /\ UNCHANGED <<items, pc>>
       ELSE /\ items' = OrderByTimestamp(queue)
            /\ pc' = "drain"
            /\ drain' = IF pgUp THEN "running" ELSE "none"
    /\ UNCHANGED <<local, queue, pg, online_available, pgUp, now, nextId, nextQ, faults,
                   w, lastRet, hist>>

\* One turn of "for item in queue_items": _sync_to_postgresql, then
\* _remove_from_sync_queue; _increment_retry_count only in the except clause, that is
\* only when the push raised.  f: the failure met by the turn ("remove": the DELETE
\* or UPDATE of sync_queue raised and was logged).
SyncItemF(f) ==
    /\ pc = "drain"
    /\ items # <<>>
    /\ LET item == Head(items)
           r == _sync_to_postgresql(item.table_name, item.data, item.operation,
                                    f # "reject", f # "mark")
           clean == /\ drain = "running"
                    /\ r.res \notin {"skipped", "connect_error", "rejected"}
                    /\ f = "none"
       IN  /\ Bites(f, item.table_name, item.data, item.operation)
           /\ pg' = r.pg
           /\ local' = r.local
           /\ queue' = IF r.raised
                       THEN _increment_retry_count(queue, item.id, f # "remove")
                       ELSE _remove_from_sync_queue(queue, item.id, f # "remove")
           /\ faults' = IF f = "none" THEN faults ELSE faults + 1
           /\ drain' = IF ~clean THEN "none"
                       ELSE IF Tail(items) = <<>> THEN "done" ELSE "running"
    /\ items' = Tail(items)
    /\ pc' = IF Tail(items) = <<>> THEN "idle" ELSE "drain"
    /\ UNCHANGED <<online_available, pgUp, now, nextId, nextQ, w, lastRet, hist>>

SyncItem ==
    \E f \in PushFaults \cup (IF MayFail THEN {"remove"} ELSE {}) : SyncItemF(f)

\* ------------------------------------------------------------- environment
\* The process stops at any point and is started again: SQLite and PostgreSQL keep
\* their rows, __init__ probes PostgreSQL once (_check_postgresql)
Restart ==
    /\ pc' = "idle"
    /\ w' = W0
    /\ items' = <<>>
    /\ online_available' = pgUp
    /\ drain' = "none"
    /\ UNCHANGED <<local, queue, pg, pgUp, now, nextId, nextQ, faults, lastRet, hist>>

\* the remote store becomes reachable or unreachable
EnvFlip ==
    /\ pgUp' = ~pgUp
    /\ drain' = IF drain = "running" THEN "none" ELSE drain
    /\ UNCHANGED <<local, queue, pg, online_available, now, nextId, nextQ, faults, pc, w,
                   items, lastRet, hist>>

\* ------------------------------------------------------ OfflineStorageManager
\* a store_offline_task that inserts its row before it looks at the source file
StoreInsertsFirst(f) ==
    /\ f = "insert" => MayFail
    /\ \E t \in TaskIds :
         /\ ~tasks[t].stored
         /\ \A u \in TaskIds : u < t => tasks[u].stored
         /\ tasks' = IF f = "insert" THEN tasks
                     ELSE [tasks EXCEPT ![t] = [NoTask EXCEPT !.stored = TRUE]]
    /\ faults' = IF f = "insert" THEN faults + 1 ELSE faults
    /\ UNCHANGED <<netUp, wpc, todo, ppc, plist, pstart>>

\* store_offline_task: task_id = str(uuid.uuid4()); if the source file exists, copy
\* it and INSERT INTO offline_tasks (processed and synced take their default FALSE),
\* return task_id; else raise FileNotFoundError.  f = "nofile": the file is missing;
\* f = "insert": the INSERT raises, outside any try block
store_offline_taskF(f) ==
    /\ f = "insert" => MayFail
    /\ IF f = "none"
       THEN \E t \in TaskIds :
              /\ ~tasks[t].stored
              /\ \A u \in TaskIds : u < t => tasks[u].stored
              /\ tasks' = [tasks EXCEPT ![t] = [NoTask EXCEPT !.stored = TRUE]]
       ELSE tasks' = tasks
    /\ faults' = IF f = "insert" THEN faults + 1 ELSE faults
    /\ UNCHANGED <<netUp, wpc, todo, ppc, plist, pstart>>

store_offline_task ==
    \E f \in {"none", "nofile", "insert"} : store_offline_taskF(f)

\* an UPDATE that stores the result and leaves the processed flag as it is
MarkProcessedNoFlag(rows, task_id, result, error) ==
    [rows EXCEPT ![task_id].result = result, ![task_id].error = error]

\* UPDATE offline_tasks SET processed = TRUE, result = ?, error = ? WHERE id = ?
mark_task_processed(rows, task_id, result, error) ==
    [rows EXCEPT ![task_id].processed = TRUE, ![task_id].result = result,
                 ![task_id].error = error]

\* an UPDATE that matches no row
MarkSyncedNoRow(rows, task_id, ok) == rows

\* UPDATE offline_tasks SET synced = TRUE WHERE id = ?
\* ok = FALSE: the UPDATE raised
mark_task_synced(rows, task_id, ok) ==
    IF ok THEN [rows EXCEPT ![task_id].synced = TRUE] ELSE rows

\* get_pending_tasks: SELECT ... WHERE processed = FALSE ORDER BY timestamp
get_pending_tasks == {t \in TaskIds : tasks[t].stored /\ ~tasks[t].processed}

\* process_offline_tasks up to its loop: pending_tasks = self.get_pending_tasks(), and
\* the return when the list is empty
ProcessBegin(p) ==
    /\ ppc[p] = "idle"
    /\ IF get_pending_tasks = {}
       THEN UNCHANGED <<ppc, plist, pstart>>
       ELSE /\ ppc' = [ppc EXCEPT ![p] = "loop"]
            /\ plist' = [plist EXCEPT ![p] = get_pending_tasks]
            /\ pstart' = [pstart EXCEPT ![p] = get_pending_tasks]
    /\ UNCHANGED <<tasks, netUp, wpc, todo, faults>>

\* One turn of "for task in pending_tasks", on the list read when the call began.
\* o = "answer": the model answers, mark_task_processed(task.id, result);
\* o = "raise": the model or the task type raises, mark_task_processed(task.id, {},
\* str(e)) in the except clause; o = "abort": the UPDATE of the except clause raises
\* too and the exception leaves process_offline_tasks.
ProcessTurnF(p, o) ==
    /\ ppc[p] = "loop"
    /\ o = "abort" => MayFail
    /\ LET t == CHOOSE u \in plist[p] : \A v \in plist[p] : u <= v
           rest == IF o = "abort" THEN {} ELSE plist[p] \ {t}
       IN  /\ tasks' = CASE o = "answer" -> mark_task_processed(tasks, t, "answer", FALSE)
                         [] o = "raise" -> mark_task_processed(tasks, t, "empty", TRUE)
                         [] OTHER -> tasks
           /\ plist' = [plist EXCEPT ![p] = rest]
           /\ ppc' = [ppc EXCEPT ![p] = IF rest = {} THEN "idle" ELSE "loop"]
           /\ pstart' = [pstart EXCEPT ![p] = IF rest = {} THEN {} ELSE @]
    /\ faults' = IF o = "abort" THEN faults + 1 ELSE faults
    /\ UNCHANGED <<netUp, wpc, todo>>

process_offline_tasks ==
    \E p \in Callers :
        \/ ProcessBegin(p)
        \/ \E o \in {"answer", "raise", "abort"} : ProcessTurnF(p, o)

\* a column of the row fetched by get_storage_stats: a number, or NULL (None)
SqlNull == [null |-> TRUE, n |-> 0]

SqlInt(n) == [null |-> FALSE, n |-> n]

\* COUNT(*) over the rows: 0 when there is none
SqlCount(rows) == SqlInt(Cardinality(rows))

\* SUM(CASE WHEN <cond> THEN 1 ELSE 0 END) over the rows, hits being the rows that
\* meet the condition: NULL when there is no row at all
SqlSumCase(rows, hits) == IF rows = {} THEN SqlNull ELSE SqlInt(Cardinality(hits))

\* get_storage_stats: one SELECT over offline_tasks, no write
get_storage_stats ==
    LET rows == {t \in TaskIds : tasks[t].stored}
    IN  [total_tasks |-> SqlCount(rows),
         pending_tasks |-> SqlSumCase(rows, {t \in rows : ~tasks[t].processed}),
         processed_unsynced |->
             SqlSumCase(rows, {t \in rows : tasks[t].processed /\ ~tasks[t].synced}),
         synced_tasks |-> SqlSumCase(rows, {t \in rows : tasks[t].synced})]

\* _sync_worker: if self.is_online(); a cycle whose probe fails sleeps and probes again
WorkerProbe ==
    /\ wpc = "probe"
    /\ wpc' = IF netUp THEN "select" ELSE "probe"
    /\ UNCHANGED <<tasks, netUp, todo, faults, ppc, plist, pstart>>

\* a SELECT that leaves out processed = TRUE: SELECT ... WHERE synced = FALSE
WorkerSelectAll ==
    /\ wpc = "select"
    /\ todo' = {t \in TaskIds : tasks[t].stored /\ ~tasks[t].synced}
    /\ wpc' = IF todo' = {} THEN "probe" ELSE "loop"
    /\ UNCHANGED <<tasks, netUp, faults, ppc, plist, pstart>>

\* _sync_pending_tasks: SELECT ... WHERE processed = TRUE AND synced = FALSE; with
\* nothing to sync the cycle ends in time.sleep(30)
WorkerSelect ==
    /\ wpc = "select"
    /\ todo' = {t \in TaskIds : tasks[t].stored /\ tasks[t].processed /\ ~tasks[t].synced}
    /\ wpc' = IF todo' = {} THEN "probe" ELSE "loop"
    /\ UNCHANGED <<tasks, netUp, faults, ppc, plist, pstart>>

\* One turn of "for task_data in tasks_to_sync": _sync_task_to_cloud (a placeholder
\* that only prints), then mark_task_synced; an exception is printed and the loop
\* goes on.  The rows come back in no stated order.
WorkerSyncTask ==
    /\ wpc = "loop"
    /\ \E t \in todo, ok \in Oks :
         /\ tasks' = mark_task_synced(tasks, t, ok)
         /\ faults' = IF ok THEN faults ELSE faults + 1
         /\ todo' = todo \ {t}
         /\ wpc' = IF todo' = {} THEN "probe" ELSE "loop"
    /\ UNCHANGED <<netUp, ppc, plist, pstart>>

\* httpbin.org becomes reachable or unreachable
NetFlip ==
    /\ netUp' = ~netUp
    /\ UNCHANGED <<tasks, wpc, todo, faults, ppc, plist, pstart>>

\* The interpreter exits: the _sync_worker thread is a daemon thread
\* (threading.Thread(target=self._sync_worker, daemon=True)) and is stopped where it
\* stands, the calls in progress end with the process; offline_tasks keeps its rows
Shutdown ==
    /\ wpc # "halted"
    /\ wpc' = "halted"
    /\ ppc' = [p \in Callers |-> "idle"]
    /\ plist' = [p \in Callers |-> {}]
    /\ pstart' = [p \in Callers |-> {}]
    /\ UNCHANGED <<tasks, netUp, todo, faults>>

\* The program is started again: OfflineStorageManager() starts a new worker thread
Startup ==
    /\ wpc = "halted"
    /\ wpc' = "probe"
    /\ todo' = {}
    /\ UNCHANGED <<tasks, netUp, ppc, plist, pstart, faults>>

\* -------------------------------------------------------------- specifications
\* DatabaseManager alone
Next ==
    \/ add_patient /\ UNCHANGED taskVars
    \/ add_soap_note /\ UNCHANGED taskVars
    \/ update_soap_note /\ UNCHANGED taskVars
    \/ log_interaction /\ UNCHANGED taskVars
    \/ save_video_analysis /\ UNCHANGED taskVars
    \/ add_missing_person /\ UNCHANGED taskVars
    \/ add_vitals /\ UNCHANGED taskVars
    \/ WriteEnqueue /\ UNCHANGED taskVars
    \/ WritePush /\ UNCHANGED taskVars
    \/ SyncBegin /\ UNCHANGED taskVars
    \/ SyncItem /\ UNCHANGED taskVars
    \/ Restart /\ UNCHANGED taskVars
    \/ EnvFlip /\ UNCHANGED taskVars

Spec == Init /\ [][Next]_vars

\* a call in progress runs to its return: the caller's thread keeps being scheduled
CallStep == (WriteEnqueue \/ WritePush \/ SyncItem) /\ UNCHANGED taskVars

SpecFair == Spec /\ WF_vars(CallStep)

\* The same program in a calm environment: no SQLite error, no rejected remote
\* statement, and the process is stopped only between two calls
WriteCall ==
    \/ add_patient
    \/ add_soap_note
    \/ update_soap_note
    \/ log_interaction
    \/ save_video_analysis
    \/ add_missing_person
    \/ add_vitals

NextCalm ==
    \/ WriteCall /\ faults' = faults /\ UNCHANGED taskVars
    \/ WriteEnqueue /\ faults' = faults /\ UNCHANGED taskVars
    \/ WritePush /\ faults' = faults /\ UNCHANGED taskVars
    \/ SyncBegin /\ UNCHANGED taskVars
    \/ SyncItem /\ faults' = faults /\ UNCHANGED taskVars
    \/ pc = "idle" /\ Restart /\ UNCHANGED taskVars
    \/ EnvFlip /\ UNCHANGED taskVars

SpecCalm == Init /\ [][NextCalm]_vars

\* The calm environment when, moreover, every write call is made while the remote
\* store is unreachable
NextOffline ==
    \/ ~pgUp /\ WriteCall /\ faults' = faults /\ UNCHANGED taskVars
    \/ WriteEnqueue /\ faults' = faults /\ UNCHANGED taskVars
    \/ WritePush /\ faults' = faults /\ UNCHANGED taskVars
    \/ SyncBegin /\ UNCHANGED taskVars
    \/ SyncItem /\ faults' = faults /\ UNCHANGED taskVars
    \/ pc = "idle" /\ Restart /\ UNCHANGED taskVars
    \/ EnvFlip /\ UNCHANGED taskVars

SpecOffline == Init /\ [][NextOffline]_vars

\* DatabaseManager and OfflineStorageManager are separate objects over separate
\* SQLite files and share no state: a behaviour that exercises one of them, the other
\* staying as constructed
DbUntouched ==
    /\ now = 0
    /\ lastRet = NoRet
    /\ pc = "idle"
    /\ online_available = pgUp
    /\ drain = "none"

TasksUntouched ==
    /\ tasks = [t \in TaskIds |-> NoTask]
    /\ wpc = "probe"
    /\ todo = {}
    /\ ~netUp
    /\ ppc = [p \in Callers |-> "idle"]

\* OfflineStorageManager alone: the caller's calls, the _sync_worker thread and the
\* network
NextTasks ==
    \/ store_offline_task /\ UNCHANGED dbVars
    \/ process_offline_tasks /\ UNCHANGED dbVars
    \/ WorkerProbe /\ UNCHANGED dbVars
    \/ WorkerSelect /\ UNCHANGED dbVars
    \/ WorkerSyncTask /\ UNCHANGED dbVars
    \/ NetFlip /\ UNCHANGED dbVars

SpecTasks == Init /\ [][NextTasks]_vars

\* OfflineStorageManager in a process that is stopped and started again
NextStop ==
    \/ wpc # "halted" /\ NextTasks
    \/ Shutdown /\ UNCHANGED dbVars
    \/ Startup /\ UNCHANGED dbVars

SpecStop == Init /\ [][NextStop]_vars

NextEither ==
    \/ TasksUntouched /\ Next
    \/ DbUntouched /\ NextTasks

SpecEither == Init /\ [][NextEither]_vars

\* the daemon thread started by __init__ keeps being scheduled
WorkerStep == (WorkerProbe \/ WorkerSelect \/ WorkerSyncTask) /\ UNCHANGED dbVars

SpecTasksFair == SpecTasks /\ WF_vars(WorkerStep)

\* ================================================================= claims
\* the remote row of an id in a table holds this body
RemoteHolds(rows, table_name, id, body) ==
    /\ id \in Ids
    /\ rows[<<table_name, id>>].present
    /\ rows[<<table_name, id>>].body = body

\* the remote row of a local row equals its current local payload
Reconciled(i) ==
    /\ RemoteHolds(pg, local[i].table, i, local[i].body)
    /\ pg[<<local[i].table, i>>].updated_at = local[i].updated_at

\* sync has run to quiescence after the last write, with the remote store reachable
\* and accepting throughout: no call in progress, nothing left to drain
Quiescent ==
    /\ pc = "idle"
    /\ queue = <<>>
    /\ drain = "done"
    /\ online_available
    /\ pgUp

\* tables written by the handlers that call _add_to_sync_queue
QueuedTables == Tables \ {"vitals"}

\* C1: every step that commits a record change of a queued table commits a
\* sync_queue entry with it, and every step that commits a sync_queue entry commits a
\* record change with it (one local transaction: both or neither).
C1_AtomicWrite ==
    [][(\E i \in Ids : /\ local'[i].table \in QueuedTables
                       /\ local'[i].body # local[i].body)
         <=> (QIds(queue') \ QIds(queue) # {})]_vars

\* C2: a step removes an entry from sync_queue only if the remote store then holds
\* that entry's payload for its record (the upsert of the entry was successful).
C2_AckOnlyAfterSuccess ==
    [][\A i \in 1..Len(queue) :
          queue[i].id \notin QIds(queue')
            => RemoteHolds(pg', queue[i].table_name, queue[i].record_id, queue[i].data.body)]_vars

\* C3: with every write made while the remote store was unreachable, once the remote
\* is reachable and sync has run to quiescence the remote row of every local row
\* equals its latest local payload.
C3_EventualConsistency ==
    Quiescent => \A i \in Ids : local[i].table # "none" => Reconciled(i)

\* C4: a record written and then rewritten before any push of it: after sync has run
\* to quiescence the remote store holds the second payload for its id.
C4_LatestPayloadWins ==
    Quiescent => \A i \in Ids : hist[i] => RemoteHolds(pg, local[i].table, i, local[i].body)

\* C5: after a write call has returned a success value (an id, or True), a local read
\* returns the payload it wrote under the id it wrote, until the next write.
C5_WriteIsReadable ==
    lastRet.val \in {"id", "True"}
        => \E t \in Tables : [id |-> lastRet.id, body |-> now] \in get_rows(t)

\* what the push of the entry at the head of the drain's list ends in
HeadPush(accept) ==
    _sync_to_postgresql(Head(items).table_name, Head(items).data, Head(items).operation,
                        accept, TRUE).res

\* the step is a turn of the drain's loop whose push attempt failed: the connect
\* failed, the parameter tuple raised, or the remote store rejected the statement
PushFailed ==
    \/ SyncItemF("none") /\ HeadPush(TRUE) \in {"connect_error", "key_error"}
    \/ SyncItemF("reject")

\* C6: a failed push attempt of the drain leaves the entry in sync_queue with its
\* retry_count raised by one.
C6_BoundedRetry ==
    [][PushFailed =>
         \E j \in 1..Len(queue') : /\ queue'[j].id = Head(items).id
                                   /\ queue'[j].retry_count = Head(items).retry_count + 1]_vars

\* the step is a turn of the drain's loop in which the remote store was reached and
\* rejected the statement
PushRejected == SyncItemF("reject")

\* C7: after a push that the remote store rejected, the entry is still in sync_queue
\* and the record is still pending (so that a later push can end it SYNCED).
C7_RejectedStaysPending ==
    [][PushRejected =>
         /\ Head(items).id \in QIds(queue')
         /\ Head(items).record_id \in Ids
         /\ local'[Head(items).record_id].sync_status = "pending"]_vars

\* C8: a row with sync_status 'synced' and no outstanding sync_queue entry is
\* reconciled: the remote row of its id equals its local payload.
C8_SyncedIsReconciled ==
    \A i \in Ids :
        (local[i].sync_status = "synced" /\ Outstanding(i) = {}) => Reconciled(i)

\* payloads a queue entry can carry, for every id and time
ProbeData ==
    {Record(i, t) : i \in Ids, t \in 0..MaxWrites}
        \cup {CallerDict(i, c, t) : i \in {NoId} \cup Ids, c \in BOOLEAN, t \in 0..MaxWrites}

\* the remote store as it is, and as it is when it already holds another payload
\* under the id of the entry
ProbeStores(table_name, data) ==
    IF data.id \in Ids
    THEN {pg, PushEffect(pg, table_name, Record(data.id, MaxWrites + 1), "INSERT")}
    ELSE {pg}

\* the statements of the push run twice leave what they leave when run once, in the
\* transaction that runs them and in the store once their connection is closed
PushedTwiceIsOnce(table_name, data, operation) ==
    \A rows \in ProbeStores(table_name, data) :
        LET stmts(r) == PushEffect(r, table_name, data, operation)
            push(r) == conn_close(r, stmts(r))
        IN  /\ stmts(stmts(rows)) = stmts(rows)
            /\ push(push(rows)) = push(rows)

\* C9: pushing the same entry twice leaves the remote store as pushing it once, for
\* every entry of sync_queue in every state and, on the store as the program finds
\* it at its start, for every table, operation and payload an entry can carry.
C9_PushIdempotent ==
    /\ \A i \in 1..Len(queue) :
          PushedTwiceIsOnce(queue[i].table_name, queue[i].data, queue[i].operation)
    /\ now = 0 =>
          \A t \in Tables, d \in ProbeData, op \in {"INSERT", "UPDATE"} :
              PushedTwiceIsOnce(t, d, op)

\* C9 witness: the drain is about to push again an entry that the immediate push of
\* its write has already pushed (the record is marked synced, the entry was never
\* removed)
C9_Witness ==
    /\ pc = "drain"
    /\ items # <<>>
    /\ Head(items).operation = "INSERT"
    /\ Head(items).table_name \in UpsertTables
    /\ Head(items).id \in QIds(queue)
    /\ Head(items).record_id \in Ids
    /\ local[Head(items).record_id].sync_status = "synced"

\* C10: no step is the immediate push of a write call going past its
\* online_available test, that is, connecting to the remote store before the write
\* returns.
C10_WriteNeverPushes ==
    [][~(WritePush /\ online_available)]_vars

\* ------------------------------------------------------------ claims C11..C20
\* the step is the return of a success value by a write call of a handler that
\* appends to sync_queue
ReturnsSuccess ==
    /\ pc \in {"enqueue", "push"}
    /\ w.table \in QueuedTables
    /\ pc' = "idle"
    /\ lastRet'.val \in {"id", "True"}

\* C11: a write call returns a success value only if its record change and its
\* sync_queue entry are committed: the entry made by this call (its record_id, the
\* time of the call) is in sync_queue when the call returns.
C11_LocalFailureSurfaces ==
    [][ReturnsSuccess =>
          \E j \in 1..Len(queue') : /\ queue'[j].record_id = w.id
                                    /\ queue'[j].timestamp = now]_vars

\* the step is the immediate push of a write call, and the remote store could not be
\* reached or rejected the statement
RemoteFailsInWrite ==
    \/ WritePushF("none") /\ ~pgUp
    \/ WritePushF("reject")

\* C12: a remote failure inside a write call leaves the local rows and sync_queue as
\* they were, and the call returns the id of its record.
C12_RemoteFailureIsolated ==
    [][RemoteFailsInWrite =>
          /\ local' = local
          /\ queue' = queue
          /\ lastRet' = [val |-> "id", id |-> w.id]
          /\ w.id \in RowIds(w.table)]_vars

\* C12 witness: the immediate push of a write call is about to meet a remote store
\* that has become unreachable, with the record and its entry committed
C12_Witness ==
    /\ pc = "push"
    /\ online_available
    /\ ~pgUp
    /\ w.id \in RowIds(w.table)
    /\ Outstanding(w.id) # {}

\* the step is the return of a success value by a write call
WriteReturns ==
    /\ lastRet' # lastRet
    /\ lastRet'.val \in {"id", "True"}

\* the step belongs to a write call
WriteStep == now' # now \/ pc \in {"enqueue", "push"}

\* entries of a queue made at a time for a record, carrying a payload
EntriesOf(q, id, ts) ==
    {j \in 1..Len(q) : q[j].record_id = id /\ q[j].timestamp = ts /\ q[j].data.body = ts}

\* C13: when a write call returns a success value, sync_queue holds exactly one entry
\* made by the call, with the id of the written record and the payload of the call;
\* and no step of a write call changes or removes an entry that was there.
C13_OneEntryPerWrite ==
    [][/\ WriteReturns => Cardinality(EntriesOf(queue', lastRet'.id, now')) = 1
       /\ WriteStep => /\ Len(queue') >= Len(queue)
                       /\ SubSeq(queue', 1, Len(queue)) = queue]_vars

\* C14: sync_status of a row changes only from pending to synced, or to pending in the
\* step of a write call that creates or rewrites the row; no step of the drain and no
\* step that leaves the payload of the row alone sets it to pending.
C14_StatusTransitions ==
    [][\A i \in Ids :
          local'[i].sync_status # local[i].sync_status =>
              \/ /\ local[i].sync_status = "pending"
                 /\ local'[i].sync_status = "synced"
                 /\ local'[i].body = local[i].body
              \/ /\ local'[i].sync_status = "pending"
                 /\ pc = "idle"
                 /\ now' = now + 1
                 /\ local'[i].body = now']_vars

\* C14 witness: a row that was marked synced is pending again, after a rewrite
C14_Witness ==
    \E i \in Ids : /\ local[i].sync_status = "pending"
                    /\ local[i].sync_timestamp = "set"
                    /\ local[i].updated_at > local[i].created_at

\* C15: with no call in progress, whenever some row is pending (a mutation of it has
\* not been accepted by the remote store) the status report counts at least one
\* pending change.
C15_FailuresObservable ==
    (pc = "idle" /\ \E i \in Ids : local[i].sync_status = "pending")
        => get_sync_status.pending_changes > 0

\* C16: if from some time on the probe of is_online always succeeds, every task that
\* is marked processed is marked synced later (the _sync_worker thread being
\* scheduled again and again).
C16_ProcessedEventuallySynced ==
    (<>[]netUp) =>
        \A t \in TaskIds : [](tasks[t].processed => <>tasks[t].synced)

\* C16 witness: a task marked processed has been marked synced by the worker, after
\* an UPDATE of an earlier cycle had failed
C16_Witness ==
    /\ netUp
    /\ faults > 0
    /\ \E t \in TaskIds : tasks[t].processed /\ tasks[t].synced

\* C17: the online signal follows the reachability of the remote store: if the remote
\* store stays unreachable from some time on, online_available is false from some
\* time on, and if it stays reachable, online_available is true from some time on.
C17_SignalFollowsProbe ==
    /\ (<>[]~pgUp) => <>[]~online_available
    /\ (<>[]pgUp) => <>[]online_available

\* what _sync_to_postgresql does with an entry while the signal reports offline
SkipsOffline(e) ==
    _sync_to_postgresql(e.table_name, e.data, e.operation, TRUE, TRUE)
        = [pg |-> pg, local |-> local, res |-> "skipped", raised |-> FALSE]

\* C18: while online_available is false no step connects to the remote store (no
\* call is or gets at its push, no drain is or gets in its loop), _sync_to_postgresql
\* returns at once for every queued entry, and a step that is not a write call leaves
\* sync_queue and every sync_status as they are; and the worker of the offline tasks
\* enters _sync_pending_tasks only from a probe that answered true.
C18_NoPushWhileOffline ==
    [][/\ ~online_available =>
            /\ pc \notin {"push", "drain"}
            /\ pc' \notin {"push", "drain"}
            /\ pg' = pg
            /\ \A j \in 1..Len(queue) : SkipsOffline(queue[j])
            /\ (now' = now /\ pc = "idle") =>
                   /\ queue' = queue
                   /\ \A i \in Ids : local'[i].sync_status = local[i].sync_status
       /\ (wpc' = "select" /\ wpc # "select") => (wpc = "probe" /\ netUp)
       /\ (wpc' = "loop" /\ wpc # "loop") => wpc = "select"]_vars

\* C18 witness: entries wait in sync_queue, the remote store is reachable, and the
\* signal still reports offline
C18_Witness ==
    /\ ~online_available
    /\ pgUp
    /\ pc = "idle"
    /\ queue # <<>>

\* the push of this entry meets no failure: connected, statement executed
PushSucceeds(table_name, data, operation) ==
    /\ online_available
    /\ pgUp
    /\ _sync_to_postgresql(table_name, data, operation, TRUE, TRUE).res = "written"

\* the record is marked as reconciled
MarkedSynced(rows, id) ==
    /\ id \in Ids
    /\ rows[id].sync_status = "synced"
    /\ rows[id].sync_timestamp = "set"

\* C19: after a successful push, by the drain or by the immediate push of a write,
\* the queue entry that carried the payload is gone from sync_queue and the record is
\* 'synced' with its sync_timestamp set (stated for the writes that queue an entry).
C19_PushedEntryRemoved ==
    [][/\ (/\ WritePushF("none")
           /\ w.table \in QueuedTables
           /\ PushSucceeds(w.table, w.data, "INSERT")) =>
            /\ \A j \in 1..Len(queue') :
                  ~(queue'[j].record_id = w.id /\ queue'[j].data = w.data)
            /\ MarkedSynced(local', w.id)
       /\ (SyncItemF("none")
             /\ PushSucceeds(Head(items).table_name, Head(items).data,
                             Head(items).operation)) =>
            /\ Head(items).id \notin QIds(queue')
            /\ MarkedSynced(local', Head(items).data.id)]_vars

\* the entries of the cycle that follow its head and carry the same record
LaterOfSameRecord ==
    {j \in 2..Len(items) : /\ items[j].table_name = Head(items).table_name
                           /\ items[j].record_id = Head(items).record_id}

\* C20: in one drain cycle a record is pushed at most once, with its latest entry: a
\* turn of the loop executes no remote statement for an entry that a later entry of
\* the same record follows.
C20_OnePushPerRecord ==
    [][\A f \in PushFaults :
          (SyncItemF(f) /\ LaterOfSameRecord # {}) =>
              _sync_to_postgresql(Head(items).table_name, Head(items).data,
                                  Head(items).operation, f # "reject", f # "mark").res
                  # "written"]_vars

\* ---------------------------------------------------------- claims C21..C30
\* the entries of the cycle that follow its head, carry the same record and were
\* enqueued before the head
EarlierOfSameRecord ==
    {j \in LaterOfSameRecord : items[j].timestamp < Head(items).timestamp}

\* C21: within a drain the entries of one record are read and pushed oldest first: no
\* turn of the loop pushes an entry while an entry of the same record that was
\* enqueued before it still waits in the cycle.
C21_PerRecordOrder ==
    [][\A f \in PushFaults \cup {"remove"} :
          SyncItemF(f) => EarlierOfSameRecord = {}]_vars

\* C21 witness: a drain has pushed the INSERT entry of a soap note, the record is
\* marked synced on it, and the UPDATE entry of the same note comes next
C21_Witness ==
    /\ pc = "drain"
    /\ items # <<>>
    /\ Head(items).operation = "UPDATE"
    /\ Head(items).record_id \in Ids
    /\ local[Head(items).record_id].sync_status = "synced"
    /\ local[Head(items).record_id].updated_at = Head(items).timestamp

\* the statements of the push of an older payload leave a newer remote row of the
\* same id as it is
StaleLeavesRow(table_name, data, operation) ==
    \A rows \in ProbeStores(table_name, data) :
        LET key == <<table_name, data.id>>
        IN  (rows[key].present /\ rows[key].updated_at > data.updated_at) =>
                PushEffect(rows, table_name, data, operation)[key] = rows[key]

\* C22: the upsert statements of _sync_to_postgresql never overwrite a newer remote
\* row with an older payload: for every entry of sync_queue, run on a store that
\* holds a row of the entry's id with a later updated_at, they leave that row as it
\* is.
C22_StaleUpsertRejected ==
    \A i \in 1..Len(queue) :
        queue[i].data.id \in Ids =>
            StaleLeavesRow(queue[i].table_name, queue[i].data, queue[i].operation)

\* C24: every entry of sync_queue refers to a record that exists locally: the table
\* named by the entry holds a row under the entry's record_id.
C24_QueueRefersToRow ==
    \A i \in 1..Len(queue) : queue[i].record_id \in RowIds(queue[i].table_name)

\* the step is a push that executes a remote statement for the record
StatementFor(i) ==
    \/ /\ pc = "push"
       /\ w.id = i
       /\ IssuesStatement(w.table, "INSERT")
    \/ /\ pc = "drain"
       /\ items # <<>>
       /\ Head(items).data.id = i
       /\ IssuesStatement(Head(items).table_name, Head(items).operation)

\* C25: a record becomes 'synced' only in a step that executed a remote statement
\* for it: _mark_synced is not reached for a table or operation for which
\* _sync_to_postgresql issues no statement.
C25_SyncedOnlyAfterStatement ==
    [][\A i \in Ids :
          (local'[i].sync_status = "synced" /\ local[i].sync_status # "synced") =>
              StatementFor(i)]_vars

\* C23: the stop of the sync worker is cooperative: when the worker has stopped, the
\* batch it had in flight is finished, no task of tasks_to_sync is left behind.
C23_StopFinishesBatch ==
    wpc = "halted" => todo = {}

\* C26: every offline task that is synced is processed, and neither flag of a task
\* goes back from TRUE to FALSE.
C26_SyncedImpliesProcessed ==
    [][\A t \in TaskIds :
          /\ tasks'[t].synced => tasks'[t].processed
          /\ tasks[t].processed => tasks'[t].processed
          /\ tasks[t].synced => tasks'[t].synced]_vars

\* C26 witness: the worker has marked synced a task that a call of
\* process_offline_tasks had marked processed
C26_Witness ==
    \E t \in TaskIds : tasks[t].stored /\ tasks[t].processed /\ tasks[t].synced

\* C27: once an offline task is marked synced, its stored result and error are not
\* modified again, whatever the interleaving of the worker with the calls of
\* process_offline_tasks.
C27_SyncedResultFrozen ==
    [][\A t \in TaskIds :
          tasks[t].synced =>
              /\ tasks'[t].result = tasks[t].result
              /\ tasks'[t].error = tasks[t].error]_vars

\* the task the loop of caller p handles next: the oldest of its list
CurrentTask(p) == CHOOSE u \in plist[p] : \A v \in plist[p] : u <= v

\* C28: when a call of process_offline_tasks returns, every task that was pending
\* when it began is processed; a turn whose processing raised stores the error with
\* an empty result, takes the task out of what get_pending_tasks returns, and leaves
\* the rest of the list to the following turns.  (A call that an SQLite error of the
\* except clause makes raise does not return.)
C28_ProcessedOnReturn ==
    [][\A p \in Callers :
          /\ \A o \in {"answer", "raise"} :
                (ProcessTurnF(p, o) /\ ppc'[p] = "idle") =>
                    \A t \in pstart[p] : tasks'[t].processed
          /\ ProcessTurnF(p, "raise") =>
                /\ tasks'[CurrentTask(p)].error
                /\ tasks'[CurrentTask(p)].result = "empty"
                /\ tasks'[CurrentTask(p)].processed
                /\ plist'[p] = plist[p] \ {CurrentTask(p)}
                /\ \A t \in plist'[p] : tasks'[t] = tasks[t]]_vars

\* C28 witness: the calls have returned, a task whose processing raised is stored
\* with its error and an empty result, and a task that came after it is processed
\* with the answer of the model
C28_Witness ==
    /\ \A p \in Callers : ppc[p] = "idle"
    /\ get_pending_tasks = {}
    /\ \E t, u \in TaskIds :
          /\ t < u
          /\ tasks[t].processed /\ tasks[t].error /\ tasks[t].result = "empty"
          /\ tasks[u].processed /\ ~tasks[u].error /\ tasks[u].result = "answer"

\* the rows a step adds to offline_tasks
NewTasks == {t \in TaskIds : tasks'[t].stored /\ ~tasks[t].stored}

\* C29: a call of store_offline_task that fails (no source file, or the INSERT
\* raises) leaves offline_tasks as it was; a call that succeeds adds exactly one row,
\* under an id no row had, with processed and synced FALSE, every other row being
\* unchanged.
C29_StoreAllOrNothing ==
    [][\A f \in {"none", "nofile", "insert"} :
          store_offline_taskF(f) =>
              /\ f # "none" => tasks' = tasks
              /\ f = "none" =>
                    /\ Cardinality(NewTasks) = 1
                    /\ \A t \in NewTasks : ~tasks'[t].processed /\ ~tasks'[t].synced
                    /\ \A t \in TaskIds \ NewTasks : tasks'[t] = tasks[t]]_vars

\* C29 witness: an INSERT of store_offline_task has raised (no other statement can
\* fail while the table is empty) and the table holds no row
C29_Witness ==
    /\ faults > 0
    /\ \A t \in TaskIds : ~tasks[t].stored

\* the counts are numbers and the three status counts add up to the total
StatsPartition(stats) ==
    /\ ~stats.total_tasks.null
    /\ ~stats.pending_tasks.null
    /\ ~stats.processed_unsynced.null
    /\ ~stats.synced_tasks.null
    /\ stats.total_tasks.n = stats.pending_tasks.n + stats.processed_unsynced.n
                                + stats.synced_tasks.n

\* C30: in every state the counts returned by get_storage_stats partition the tasks:
\* total_tasks = pending_tasks + processed_unsynced + synced_tasks.
C30_StatsPartition ==
    StatsPartition(get_storage_stats)

\* the same, in the states where offline_tasks holds a row
StatsPartitionNonEmpty ==
    (\E t \in TaskIds : tasks[t].stored) => StatsPartition(get_storage_stats)

====
